---- MODULE Spec2Model ----
(***************************************************************************)
(* A model of simonbuchan/html: the template compiler (createTemplate),    *)
(* the instantiation engine (createTemplateInstance), the update rule      *)
(* (updateNodeSlot, updateAttrValueSlot) and the address resolver          *)
(* (pathToNode, nodeFromPath), over an explicit model of the DOM tree.     *)
(*                                                                         *)
(* A DOM tree is a heap: a function from node ids to node records.  The    *)
(* parsed tree of a compiled template lives in a heap of its own (nothing  *)
(* outside createTemplate/importNode ever holds one of its nodes); every   *)
(* clone and every node made by the page lives in the heap `dom`.          *)
(* Strings are sequences of characters; the character "#" stands for the   *)
(* replacement character U+26A1.                                           *)
(***************************************************************************)
EXTENDS Integers, Sequences, FiniteSets, TLC

\* ------------------------------------------------------------------ bounds
\* capacity of the heap `dom` (node ids 1..MaxNodes)
MaxNodes == 10
\* capacity of the heap a template is parsed into
MaxTplNodes == 12
NULL == 0

Nodes == 1..MaxNodes

\* ------------------------------------------------------------ the DOM heap
FreeNode ==
    [kind |-> "free", name |-> "", data |-> <<>>, attrs |-> <<>>,
     kids |-> <<>>, parent |-> NULL]

EmptyHeap(cap) == [n \in 1..cap |-> FreeNode]

Used(d) == {n \in DOMAIN d : d[n].kind # "free"}

\* the highest id in use, 0 in an empty heap
Top(d) == IF Used(d) = {} THEN 0 ELSE CHOOSE n \in Used(d) : \A m \in Used(d) : m <= n

\* the id the next created node gets: the lowest one not in use.  A
\* node's identity is its id; the id of a reclaimed node (see Reclaim) may
\* come to name a later node, as a freed address does.
Fresh(d) == CHOOSE n \in DOMAIN d : d[n].kind = "free" /\ \A m \in 1..(n - 1) : d[m].kind # "free"

\* whether one more node can be created
HasRoom(d) == \E n \in DOMAIN d : d[n].kind = "free"

\* whether k more nodes can be created above every node in use
HasRoomAbove(d, k) == Top(d) + k <= Cardinality(DOMAIN d)

NewNode(kind, name, data, attrs) ==
    [kind |-> kind, name |-> name, data |-> data, attrs |-> attrs,
     kids |-> <<>>, parent |-> NULL]

\* 1-based position of n in the sequence s, 0 when absent
RECURSIVE IndexIn(_, _, _)
IndexIn(s, n, i) ==
    IF i > Len(s) THEN 0
    ELSE IF s[i] = n THEN i
    ELSE IndexIn(s, n, i + 1)

Pos(s, n) == IndexIn(s, n, 1)

InSeq(s, n) == Pos(s, n) # 0

Without(s, n) == SelectSeq(s, LAMBDA x : x # n)

\* s with x inserted so that it becomes element number i
InsertAt(s, i, x) == SubSeq(s, 1, i - 1) \o <<x>> \o SubSeq(s, i, Len(s))

nextSibling(d, n) ==
    IF d[n].parent = NULL THEN NULL
    ELSE LET ks == d[d[n].parent].kids
             i == Pos(ks, n)
         IN IF i < Len(ks) THEN ks[i + 1] ELSE NULL

previousSibling(d, n) ==
    IF d[n].parent = NULL THEN NULL
    ELSE LET ks == d[d[n].parent].kids
             i == Pos(ks, n)
         IN IF i > 1 THEN ks[i - 1] ELSE NULL

\* ChildNode.remove()
remove(d, n) ==
    IF d[n].parent = NULL THEN d
    ELSE LET p == d[n].parent
         IN [d EXCEPT ![p].kids = Without(@, n), ![n].parent = NULL]

\* Node.appendChild(n) for a node n that has no parent
appendChild(d, p, n) ==
    [d EXCEPT ![p].kids = Append(@, n), ![n].parent = p]

\* inclusive ancestor relation: a is n or an ancestor of n
RECURSIVE IsInclusiveAncestor(_, _, _)
IsInclusiveAncestor(d, a, n) ==
    IF n = NULL THEN FALSE
    ELSE IF n = a THEN TRUE
    ELSE IsInclusiveAncestor(d, a, d[n].parent)

\* insert the parentless, non-fragment node n into p so that it comes
\* right before child (at the end when child is NULL)
InsertOne(d, p, n, child) ==
    LET ks == d[p].kids
        at == IF child = NULL THEN Len(ks) + 1 ELSE Pos(ks, child)
    IN [d EXCEPT ![p].kids = InsertAt(ks, at, n), ![n].parent = p]

\* an insertion of a list that takes its first node only
InsertFirst(d, p, ns, child) ==
    IF ns = <<>> THEN d
    ELSE InsertOne(remove(d, Head(ns)), p, Head(ns), child)

RECURSIVE InsertAll(_, _, _, _)
InsertAll(d, p, ns, child) ==
    IF ns = <<>> THEN d
    ELSE InsertAll(InsertOne(remove(d, Head(ns)), p, Head(ns), child),
                   p, Tail(ns), child)

\* the DOM's "pre-insert node into parent before child": a document
\* fragment is emptied and its children inserted in order, any other node
\* is first removed from where it is.  When child is node itself the
\* reference becomes node's next sibling.
preInsert(d, p, node, child) ==
    LET ref == IF child = node THEN nextSibling(d, node) ELSE child
    IN IF d[node].kind = "frag"
       THEN InsertAll(d, p, d[node].kids, ref)
       ELSE InsertOne(remove(d, node), p, node, ref)

\* ChildNode.before(node) on the node this: nothing when this has no
\* parent; otherwise node is inserted after this's nearest preceding
\* sibling other than node.  Inserting an inclusive ancestor of the parent
\* is a HierarchyRequestError, which leaves the tree as it was.
before(d, this, node) ==
    LET p == d[this].parent
        prev == previousSibling(d, this)
        viablePrev == IF prev = node THEN previousSibling(d, prev) ELSE prev
        ref == IF viablePrev = NULL
               THEN (IF d[p].kids = <<>> THEN NULL ELSE d[p].kids[1])
               ELSE nextSibling(d, viablePrev)
    IN IF p = NULL THEN d
       ELSE IF IsInclusiveAncestor(d, node, p) THEN d
       ELSE preInsert(d, p, node, ref)

\* Document.createTextNode(data): the heap with the new node; its id is
\* Fresh(d)
createTextNode(d, data) ==
    [d EXCEPT ![Fresh(d)] = NewNode("text", "", data, <<>>)]

\* Text.splitText(offset): the data from offset on moves to a new text
\* node, Fresh(d), inserted right after n
splitText(d, n, offset) ==
    LET t == Fresh(d)
        old == d[n].data
        d1 == [d EXCEPT ![t] = NewNode("text", "", SubSeq(old, offset + 1, Len(old)), <<>>),
                        ![n].data = SubSeq(old, 1, offset)]
        p == d[n].parent
    IN IF p = NULL THEN d1
       ELSE InsertOne(d1, p, t, nextSibling(d1, n))

\* ------------------------------------------------------------- attributes
\* attributes are a list of <<name, value>> pairs in source order
RECURSIVE AttrIndex(_, _, _)
AttrIndex(as, name, i) ==
    IF i > Len(as) THEN 0
    ELSE IF as[i][1] = name THEN i
    ELSE AttrIndex(as, name, i + 1)

HasAttr(d, e, name) == AttrIndex(d[e].attrs, name, 1) # 0

GetAttr(d, e, name) == d[e].attrs[AttrIndex(d[e].attrs, name, 1)][2]

setAttribute(d, e, name, value) ==
    LET i == AttrIndex(d[e].attrs, name, 1)
    IN IF i = 0 THEN [d EXCEPT ![e].attrs = Append(@, <<name, value>>)]
       ELSE [d EXCEPT ![e].attrs[i] = <<name, value>>]

removeAttribute(d, e, name) ==
    [d EXCEPT ![e].attrs = SelectSeq(@, LAMBDA a : a[1] # name)]

\* --------------------------------------------------------- template text
\* The replacement character (U+26A1 in the source).
replacement == "#"

\* A template string is a sequence of tokens: a character of text, or one
\* of the markup tokens below.  "class=" and "id=" stand for an attribute
\* name with its opening quote, "Q" for the closing quote.
StartTags == {"<p", "<ul", "<div", "<b"}

EndTags == {"</p>", "</ul>", "</div>", "</b>"}

AttrStarts == {"class=", "id="}

TagName(tok) ==
    CASE tok \in {"<p", "</p>"} -> "p"
      [] tok \in {"<ul", "</ul>"} -> "ul"
      [] tok \in {"<div", "</div>"} -> "div"
      [] tok \in {"<b", "</b>"} -> "b"

AttrName(tok) ==
    CASE tok = "class=" -> "class"
      [] tok = "id=" -> "id"

\* strings.join(replacement)
RECURSIVE join(_, _)
join(strings, sep) ==
    IF Len(strings) = 0 THEN <<>>
    ELSE IF Len(strings) = 1 THEN strings[1]
    ELSE strings[1] \o <<sep>> \o join(Tail(strings), sep)

\* ------------------------------------------------------------ HTML parser
\* element.innerHTML = text, for the markup the tokens above can spell:
\* nested elements with quoted attributes, comments and text.  The state of
\* the parse: the heap, the stack of open elements (the template content,
\* node 1, at the bottom), the tokenizer mode, the start tag being read and
\* the attribute value or comment being read.
ContentRoot == 1

ParseInit(cap) ==
    [d |-> [EmptyHeap(cap) EXCEPT ![ContentRoot] = NewNode("frag", "", <<>>, <<>>)],
     open |-> <<ContentRoot>>,
     mode |-> "data",
     pend |-> [name |-> "", attrs |-> <<>>],
     attr |-> "",
     buf |-> <<>>]

Last(s) == s[Len(s)]

\* a character of text: appended to the current node's last child when
\* that is a text node, a new text node otherwise
ParseChar(ps, c) ==
    LET cur == Last(ps.open)
        ks == ps.d[cur].kids
        lc == IF ks = <<>> THEN NULL ELSE Last(ks)
    IN IF lc # NULL /\ ps.d[lc].kind = "text"
       THEN [ps EXCEPT !.d[lc].data = Append(@, c)]
       ELSE LET t == Fresh(ps.d)
                d1 == [ps.d EXCEPT ![t] = NewNode("text", "", <<c>>, <<>>)]
            IN [ps EXCEPT !.d = appendChild(d1, cur, t)]

\* an end tag closes the nearest open element of that name and everything
\* opened inside it; with no such element open it is ignored
RECURSIVE PopTo(_, _, _)
PopTo(d, open, name) ==
    IF Len(open) <= 1 THEN open
    ELSE IF d[Last(open)].name = name THEN SubSeq(open, 1, Len(open) - 1)
    ELSE PopTo(d, SubSeq(open, 1, Len(open) - 1), name)

IsOpen(d, open, name) ==
    \E i \in 2..Len(open) : d[open[i]].name = name

ParseToken(ps, tok) ==
    CASE ps.mode = "data" ->
           IF tok \in StartTags
           THEN [ps EXCEPT !.mode = "tag",
                           !.pend = [name |-> TagName(tok), attrs |-> <<>>]]
           ELSE IF tok \in EndTags
           THEN IF IsOpen(ps.d, ps.open, TagName(tok))
                THEN [ps EXCEPT !.open = PopTo(ps.d, ps.open, TagName(tok))]
                ELSE ps
           ELSE IF tok = "<!--"
           THEN [ps EXCEPT !.mode = "comment", !.buf = <<>>]
           ELSE ParseChar(ps, tok)
      [] ps.mode = "tag" ->
           IF tok \in AttrStarts
           THEN [ps EXCEPT !.mode = "attr", !.attr = AttrName(tok), !.buf = <<>>]
           ELSE IF tok = ">"
           THEN LET e == Fresh(ps.d)
                    d1 == [ps.d EXCEPT ![e] =
                              NewNode("elem", ps.pend.name, <<>>, ps.pend.attrs)]
                IN [ps EXCEPT !.d = appendChild(d1, Last(ps.open), e),
                              !.open = Append(@, e),
                              !.mode = "data"]
           \* any other character in a tag is an attribute name of its
           \* own, with the empty value
           ELSE [ps EXCEPT !.pend.attrs = Append(@, <<tok, <<>>>>)]
      [] ps.mode = "attr" ->
           IF tok = "Q"
           THEN [ps EXCEPT !.mode = "tag",
                           !.pend.attrs = Append(@, <<ps.attr, ps.buf>>)]
           ELSE [ps EXCEPT !.buf = Append(@, tok)]
      [] ps.mode = "comment" ->
           IF tok = "-->"
           THEN LET c == Fresh(ps.d)
                    d1 == [ps.d EXCEPT ![c] = NewNode("comment", "", ps.buf, <<>>)]
                IN [ps EXCEPT !.d = appendChild(d1, Last(ps.open), c),
                              !.mode = "data"]
           ELSE [ps EXCEPT !.buf = Append(@, tok)]

RECURSIVE ParseTokens(_, _)
ParseTokens(ps, toks) ==
    IF toks = <<>> THEN ps
    ELSE ParseTokens(ParseToken(ps, Head(toks)), Tail(toks))

\* at the end of the text an unfinished comment is closed and an
\* unfinished tag is dropped
ParseEnd(ps) ==
    IF ps.mode = "comment"
    THEN LET c == Fresh(ps.d)
             d1 == [ps.d EXCEPT ![c] = NewNode("comment", "", ps.buf, <<>>)]
         IN appendChild(d1, Last(ps.open), c)
    ELSE ps.d

innerHTML(cap, text) == ParseEnd(ParseTokens(ParseInit(cap), text))

\* ------------------------------------------------------- address resolver
\* the result of a pathToNode that throws
PathError == <<-1>>

\* a count of the siblings before node that counts node as well
RECURSIVE CountUpTo(_, _)
CountUpTo(d, node) ==
    IF previousSibling(d, node) = NULL THEN 1
    ELSE 1 + CountUpTo(d, previousSibling(d, node))

RECURSIVE CountPrevious(_, _)
CountPrevious(d, node) ==
    IF previousSibling(d, node) = NULL THEN 0
    ELSE 1 + CountPrevious(d, previousSibling(d, node))

\* a climb that returns what it has when it runs out of parents
RECURSIVE PathUpPartial(_, _, _, _)
PathUpPartial(d, root, node, result) ==
    IF node = root \/ node = NULL THEN result
    ELSE PathUpPartial(d, root, d[node].parent, <<CountPrevious(d, node)>> \o result)

RECURSIVE PathUp(_, _, _, _)
PathUp(d, root, node, result) ==
    IF node = root THEN result
    ELSE IF node = NULL THEN PathError
    ELSE PathUp(d, root, d[node].parent, <<CountPrevious(d, node)>> \o result)

\* child indexes (from 0) from root down to target
pathToNode(d, root, target) == PathUp(d, root, target, <<>>)

\* root.childNodes[index] along the path; NULL where there is no such child
RECURSIVE nodeFromPath(_, _, _)
nodeFromPath(d, root, path) ==
    IF path = <<>> THEN root
    ELSE IF root = NULL \/ Head(path) < 0 \/ Head(path) >= Len(d[root].kids) THEN NULL
    ELSE nodeFromPath(d, d[root].kids[Head(path) + 1], Tail(path))

\* ------------------------------------------------------ template compiler
\* the node after n in document order inside root's subtree, NULL at the end
RECURSIVE FollowingUp(_, _, _)
FollowingUp(d, root, n) ==
    IF n = root \/ n = NULL THEN NULL
    ELSE IF nextSibling(d, n) # NULL THEN nextSibling(d, n)
    ELSE FollowingUp(d, root, d[n].parent)

Following(d, root, n) ==
    IF d[n].kids # <<>> THEN d[n].kids[1] ELSE FollowingUp(d, root, n)

\* NodeIterator.nextNode() with SHOW_ELEMENT | SHOW_TEXT, from the
\* iterator's reference node ref
RECURSIVE nextNode(_, _, _)
nextNode(d, root, ref) ==
    LET f == Following(d, root, ref)
    IN IF f = NULL THEN NULL
       ELSE IF d[f].kind \in {"elem", "text"} THEN f
       ELSE nextNode(d, root, f)

\* text.data.indexOf(replacement): from 0, -1 when absent
indexOf(data, c) == Pos(data, c) - 1

\* a loop that takes the path of the text node before it cuts the marker
\* off the text in front of it
RECURSIVE SplitLoopEarly(_, _)
SplitLoopEarly(st, text) ==
    LET dataIndex == indexOf(st.d[text].data, replacement)
    IN IF dataIndex < 0 THEN st
       ELSE LET beforeNode == text
                d1 == splitText(st.d, text, dataIndex + 1)
                text1 == Fresh(st.d)
                d2 == IF dataIndex # 0 THEN splitText(d1, beforeNode, dataIndex) ELSE d1
                slot == [type |-> "node",
                         path |-> pathToNode(d1, ContentRoot, beforeNode),
                         name |-> ""]
            IN SplitLoopEarly([d |-> d2, slots |-> Append(st.slots, slot)], text1)

\* the while loop over one text node (lines 81-100): st is the heap and
\* the slots found so far
RECURSIVE SplitLoop(_, _)
SplitLoop(st, text) ==
    LET dataIndex == indexOf(st.d[text].data, replacement)
    IN IF dataIndex < 0 THEN st
       ELSE LET beforeNode == text
                d1 == splitText(st.d, text, dataIndex + 1)
                text1 == Fresh(st.d)
                d2 == IF dataIndex # 0 THEN splitText(d1, beforeNode, dataIndex) ELSE d1
                split == IF dataIndex # 0 THEN Fresh(d1) ELSE beforeNode
                slot == [type |-> "node",
                         path |-> pathToNode(d2, ContentRoot, split),
                         name |-> ""]
            IN SplitLoop([d |-> d2, slots |-> Append(st.slots, slot)], text1)

\* an attribute loop that takes every value containing the marker
RECURSIVE AttrLoopContains(_, _, _)
AttrLoopContains(st, element, i) ==
    IF i > Len(st.d[element].attrs) THEN st
    ELSE LET attr == st.d[element].attrs[i]
         IN IF InSeq(attr[2], replacement)
            THEN AttrLoopContains([st EXCEPT !.slots = Append(@,
                                      [type |-> "attr-value",
                                       path |-> pathToNode(st.d, ContentRoot, element),
                                       name |-> attr[1]])],
                                  element, i + 1)
            ELSE AttrLoopContains(st, element, i + 1)

\* the for loop over an element's attributes (lines 105-113)
RECURSIVE AttrLoop(_, _, _)
AttrLoop(st, element, i) ==
    IF i > Len(st.d[element].attrs) THEN st
    ELSE LET attr == st.d[element].attrs[i]
         IN IF attr[2] = <<replacement>>
            THEN AttrLoop([st EXCEPT !.slots = Append(@,
                              [type |-> "attr-value",
                               path |-> pathToNode(st.d, ContentRoot, element),
                               name |-> attr[1]])],
                          element, i + 1)
            ELSE AttrLoop(st, element, i + 1)

VisitNode(st, node) ==
    IF st.d[node].kind = "text" THEN SplitLoop(st, node)
    ELSE AttrLoop(st, node, 1)

\* a walk that asks for the next node after the current one was changed
RECURSIVE WalkRefetch(_, _)
WalkRefetch(st, node) ==
    IF node = NULL THEN st
    ELSE WalkRefetch(VisitNode(st, node),
                     nextNode(VisitNode(st, node).d, ContentRoot, node))

\* the walk (lines 70-119): the next node is fetched before the current
\* one is changed
RECURSIVE Walk(_, _)
Walk(st, node) ==
    IF node = NULL THEN st
    ELSE LET next == nextNode(st.d, ContentRoot, node)
         IN Walk(VisitNode(st, node), next)

\* a compiler without the check of lines 121-123: it returns whatever slots
\* it found
createTemplateUnchecked(strings) ==
    LET d0 == innerHTML(MaxTplNodes, join(strings, replacement))
        st == Walk([d |-> d0, slots |-> <<>>], nextNode(d0, ContentRoot, ContentRoot))
    IN [thrown |-> FALSE, content |-> st.d, slots |-> st.slots]

\* createTemplate: thrown is TRUE when it throws instead of returning
createTemplate(strings) ==
    LET d0 == innerHTML(MaxTplNodes, join(strings, replacement))
        st == Walk([d |-> d0, slots |-> <<>>], nextNode(d0, ContentRoot, ContentRoot))
    IN [thrown |-> Len(st.slots) # Len(strings) - 1,
        content |-> st.d,
        slots |-> st.slots]

\* ----------------------------------------------------- template arguments
\* a TemplateArgument: a string, a node, null, false, or undefined (an
\* argument that was not passed)
StringArg(s) == [t |-> "string", s |-> s, n |-> NULL]

NodeArg(n) == [t |-> "node", s |-> <<>>, n |-> n]

NullArg == [t |-> "null", s |-> <<>>, n |-> NULL]

FalseArg == [t |-> "false", s |-> <<>>, n |-> NULL]

UndefinedArg == [t |-> "undefined", s |-> <<>>, n |-> NULL]

\* args[i] of a JavaScript array (i from 1 here): undefined past the end
ArgAt(args, i) == IF i <= Len(args) THEN args[i] ELSE UndefinedArg

\* ------------------------------------------------------------ update rule
RECURSIVE CollectForward(_, _, _)
CollectForward(d, node, endBefore) ==
    LET n == nextSibling(d, node)
    IN IF n = NULL \/ n = endBefore THEN <<>>
       ELSE <<n>> \o CollectForward(d, n, endBefore)

RECURSIVE CollectBackward(_, _)
CollectBackward(d, node) ==
    LET n == previousSibling(d, node)
    IN IF n = NULL THEN <<>>
       ELSE CollectBackward(d, n) \o <<n>>

\* a collection that reads the region once, as far as the library's own
\* insertions go: without a startAfter only the node right before endBefore
collectLastChild(d, startAfter, endBefore) ==
    IF startAfter # NULL
    THEN CollectForward(d, startAfter, endBefore)
    ELSE IF previousSibling(d, endBefore) = NULL THEN <<>>
    ELSE <<previousSibling(d, endBefore)>>

collectChildNodes(d, startAfter, endBefore) ==
    IF startAfter # NULL
    THEN CollectForward(d, startAfter, endBefore)
    ELSE CollectBackward(d, endBefore)

\* current.find(node => node.nodeType === Node.TEXT_NODE), NULL when none
RECURSIVE FindText(_, _)
FindText(d, current) ==
    IF current = <<>> THEN NULL
    ELSE IF d[Head(current)].kind = "text" THEN Head(current)
    ELSE FindText(d, Tail(current))

\* what one call of the update rule did: the heap afterwards, the nodes it
\* passed to before(), the nodes it called remove() on (in order), whether
\* it threw and whether it called console.warn
Outcome(d, inserted, thrown, warned) ==
    [d |-> d, inserted |-> inserted, removed |-> <<>>, thrown |-> thrown,
     warned |-> warned]

\* for (const node of current) if (node !== keep) node.remove();
\* st is the heap with the lists of the nodes inserted and removed so far
RECURSIVE RemoveOthers(_, _, _)
RemoveOthers(st, current, keep) ==
    IF current = <<>> THEN st
    ELSE IF Head(current) = keep THEN RemoveOthers(st, Tail(current), keep)
    ELSE RemoveOthers([st EXCEPT !.d = remove(@, Head(current)),
                                 !.removed = Append(@, Head(current))],
                      Tail(current), keep)

\* whether this.before(node) throws a HierarchyRequestError
beforeThrows(d, this, node) ==
    d[this].parent # NULL /\ IsInclusiveAncestor(d, node, d[this].parent)

\* a string update that leaves the other nodes of the region in place
UpdateStringKeepOthers(d, slot, current, s) ==
    LET found == FindText(d, current)
        textNode == IF found # NULL THEN found ELSE Fresh(d)
    IN IF found # NULL
       THEN Outcome([d EXCEPT ![found].data = s], <<>>, FALSE, FALSE)
       ELSE Outcome(before(createTextNode(d, s), slot.endBefore, textNode),
                    <<textNode>>, FALSE, FALSE)

\* a string update that never reuses a text node: it first empties the
\* region and then inserts a new text node when there is room for one
UpdateStringReplace(d, slot, current, s) ==
    LET st1 == RemoveOthers(Outcome(d, <<>>, FALSE, FALSE), current, NULL)
        textNode == Fresh(st1.d)
    IN IF ~HasRoom(st1.d) THEN st1
       ELSE [st1 EXCEPT !.d = before(createTextNode(@, s), slot.endBefore, textNode),
                        !.inserted = <<textNode>>]

UpdateString(d, slot, current, s) ==
    LET found == FindText(d, current)
        textNode == IF found # NULL THEN found ELSE Fresh(d)
        st1 == IF found # NULL
               THEN Outcome([d EXCEPT ![found].data = s], <<>>, FALSE, FALSE)
               ELSE Outcome(before(createTextNode(d, s), slot.endBefore, textNode),
                            <<textNode>>, FALSE, FALSE)
    IN RemoveOthers(st1, current, textNode)

\* a node update that inserts the node whether or not the region holds it
UpdateNodeReinsert(d, slot, current, arg) ==
    IF beforeThrows(d, slot.endBefore, arg)
    THEN Outcome(d, <<>>, TRUE, FALSE)
    ELSE RemoveOthers(Outcome(before(d, slot.endBefore, arg), <<arg>>, FALSE, FALSE),
                      current, arg)

UpdateNode(d, slot, current, arg) ==
    IF ~InSeq(current, arg) /\ beforeThrows(d, slot.endBefore, arg)
    THEN Outcome(d, <<>>, TRUE, FALSE)
    ELSE LET st1 == IF ~InSeq(current, arg)
                    THEN Outcome(before(d, slot.endBefore, arg), <<arg>>, FALSE, FALSE)
                    ELSE Outcome(d, <<>>, FALSE, FALSE)
         IN RemoveOthers(st1, current, arg)

\* an update with an absent value that removes nothing
UpdateAbsentKeep(d, current) == Outcome(d, <<>>, FALSE, FALSE)

UpdateAbsent(d, current) ==
    RemoveOthers(Outcome(d, <<>>, FALSE, FALSE), current, NULL)

\* an update rule that acts on strings and nodes only
updateNodeSlotNoAbsent(d, slot, arg) ==
    LET current == collectChildNodes(d, slot.startAfter, slot.endBefore)
    IN IF arg.t = "string" THEN UpdateString(d, slot, current, arg.s)
       ELSE IF arg.t = "node" THEN UpdateNode(d, slot, current, arg.n)
       ELSE Outcome(d, <<>>, FALSE, FALSE)

\* updateNodeSlot: the heap afterwards, the nodes it passed to before()
\* and the nodes it called remove() on, in order
updateNodeSlot(d, slot, arg) ==
    LET current == collectChildNodes(d, slot.startAfter, slot.endBefore)
    IN IF arg.t = "string" THEN UpdateString(d, slot, current, arg.s)
       ELSE IF arg.t = "node" THEN UpdateNode(d, slot, current, arg.n)
       ELSE UpdateAbsent(d, current)

\* an attribute update that throws on a node instead of warning
updateAttrValueSlotStrict(d, slot, arg) ==
    IF arg.t = "string"
    THEN Outcome(setAttribute(d, slot.element, slot.name, arg.s), <<>>, FALSE, FALSE)
    ELSE IF arg.t = "node"
    THEN Outcome(d, <<>>, TRUE, FALSE)
    ELSE Outcome(removeAttribute(d, slot.element, slot.name), <<>>, FALSE, FALSE)

\* updateAttrValueSlot; warned records the console.warn
updateAttrValueSlot(d, slot, arg) ==
    IF arg.t = "string"
    THEN Outcome(setAttribute(d, slot.element, slot.name, arg.s), <<>>, FALSE, FALSE)
    ELSE IF arg.t = "node"
    THEN Outcome(removeAttribute(d, slot.element, slot.name), <<>>, FALSE, TRUE)
    ELSE Outcome(removeAttribute(d, slot.element, slot.name), <<>>, FALSE, FALSE)

updateSlot(d, slot, arg) ==
    IF slot.type = "node"
    THEN updateNodeSlot(d, slot, arg)
    ELSE updateAttrValueSlot(d, slot, arg)

\* document.importNode(content, false): the root alone, without children
importNodeShallow(d, content) ==
    [d EXCEPT ![Top(d) + ContentRoot] = [content[ContentRoot] EXCEPT !.kids = <<>>]]

\* --------------------------------------------------- instantiation engine
\* document.importNode(content, true): the nodes 1..k of the template's
\* heap become the new nodes base+1..base+k of d, above every node in use
importNode(d, content) ==
    LET base == Top(d)
        Map(n) == IF n = NULL THEN NULL ELSE base + n
        MapSeq(ks) == [i \in 1..Len(ks) |-> base + ks[i]]
    IN [n \in DOMAIN d |->
          IF n - base \in Used(content)
          THEN [content[n - base] EXCEPT !.kids = MapSeq(@), !.parent = Map(@)]
          ELSE d[n]]

NodeSlot(startAfter, endBefore) ==
    [type |-> "node", startAfter |-> startAfter, endBefore |-> endBefore,
     element |-> NULL, name |-> ""]

AttrValueSlot(element, name) ==
    [type |-> "attr-value", startAfter |-> NULL, endBefore |-> NULL,
     element |-> element, name |-> name]

\* a resolution that takes the marker node itself as the end boundary
ResolveSlotSelf(d, fragment, templateSlot) ==
    LET node == nodeFromPath(d, fragment, templateSlot.path)
    IN IF node = NULL THEN NodeSlot(NULL, NULL)
       ELSE IF templateSlot.type = "node"
       THEN NodeSlot(previousSibling(d, node), node)
       ELSE AttrValueSlot(node, templateSlot.name)

\* the first loop (lines 161-190): every path is resolved in the clone
ResolveSlot(d, fragment, templateSlot) ==
    LET node == nodeFromPath(d, fragment, templateSlot.path)
    IN IF node = NULL THEN NodeSlot(NULL, NULL)
       ELSE IF templateSlot.type = "node"
       THEN NodeSlot(previousSibling(d, node), nextSibling(d, node))
       ELSE AttrValueSlot(node, templateSlot.name)

\* an instantiation that resolves the slots and applies no argument
ApplyNoArgs(st, slots, args, i) == st

\* a second loop that hands the arguments out from the last to the first
RECURSIVE ApplyArgsReversed(_, _, _, _)
ApplyArgsReversed(st, slots, args, i) ==
    IF i > Len(slots) \/ st.thrown THEN st
    ELSE LET r == updateSlot(st.d, slots[i], ArgAt(args, Len(slots) + 1 - i))
         IN ApplyArgsReversed([d |-> r.d, thrown |-> r.thrown,
                               warned |-> st.warned \/ r.warned],
                              slots, args, i + 1)

\* the second loop (lines 193-204): args[i] is applied to slots[i]
RECURSIVE ApplyArgs(_, _, _, _)
ApplyArgs(st, slots, args, i) ==
    IF i > Len(slots) \/ st.thrown THEN st
    ELSE LET r == updateSlot(st.d, slots[i], ArgAt(args, i))
         IN ApplyArgs([d |-> r.d, thrown |-> r.thrown,
                       warned |-> st.warned \/ r.warned],
                      slots, args, i + 1)

\* the first loop over all the template's slots: each anchor is pushed on
\* slots and on the list of its kind
RECURSIVE ResolveLoop(_, _, _, _, _)
ResolveLoop(d, fragment, templateSlots, i, lists) ==
    IF i > Len(templateSlots) THEN lists
    ELSE LET slot == ResolveSlot(d, fragment, templateSlots[i])
         IN ResolveLoop(d, fragment, templateSlots, i + 1,
               [slots |-> Append(lists.slots, slot),
                nodeSlots |-> IF slot.type = "node"
                              THEN Append(lists.nodeSlots, slot)
                              ELSE lists.nodeSlots,
                attrValueSlots |-> IF slot.type = "attr-value"
                                   THEN Append(lists.attrValueSlots, slot)
                                   ELSE lists.attrValueSlots])

NoSlots == [slots |-> <<>>, nodeSlots |-> <<>>, attrValueSlots |-> <<>>]

\* one loop instead of two: each path is resolved in the clone as the
\* arguments before it have left it, and its argument applied at once
RECURSIVE InterleaveLoop(_, _, _, _, _)
InterleaveLoop(st, fragment, templateSlots, args, i) ==
    IF i > Len(templateSlots) \/ st.thrown THEN st
    ELSE LET slot == ResolveSlot(st.d, fragment, templateSlots[i])
         IN IF \/ nodeFromPath(st.d, fragment, templateSlots[i].path) = NULL
               \/ slot.type = "node" /\ slot.endBefore = NULL
            THEN [st EXCEPT !.thrown = TRUE]
            ELSE LET r == updateSlot(st.d, slot, ArgAt(args, i))
                 IN InterleaveLoop([d |-> r.d, thrown |-> r.thrown,
                                    warned |-> st.warned \/ r.warned,
                                    slots |-> Append(st.slots, slot)],
                                   fragment, templateSlots, args, i + 1)

createTemplateInstanceInterleaved(d, template, args) ==
    LET fragment == Top(d) + ContentRoot
        st == InterleaveLoop([d |-> importNode(d, template.content), thrown |-> FALSE,
                              warned |-> FALSE, slots |-> <<>>],
                             fragment, template.slots, args, 1)
    IN [d |-> st.d, thrown |-> st.thrown, warned |-> st.warned,
        fragment |-> fragment, slots |-> st.slots,
        nodeSlots |-> SelectSeq(st.slots, LAMBDA a : a.type = "node"),
        attrValueSlots |-> SelectSeq(st.slots, LAMBDA a : a.type = "attr-value")]

createTemplateInstance(d, template, args) ==
    LET fragment == Top(d) + ContentRoot
        d1 == importNode(d, template.content)
        lists == ResolveLoop(d1, fragment, template.slots, 1, NoSlots)
        slots == lists.slots
        unresolved == \E i \in 1..Len(slots) :
                          nodeFromPath(d1, fragment, template.slots[i].path) = NULL
        st == IF unresolved
              THEN [d |-> d1, thrown |-> TRUE, warned |-> FALSE]
              ELSE ApplyArgs([d |-> d1, thrown |-> FALSE, warned |-> FALSE],
                             slots, args, 1)
    IN [d |-> st.d, thrown |-> st.thrown, warned |-> st.warned,
        fragment |-> fragment, slots |-> slots,
        nodeSlots |-> lists.nodeSlots, attrValueSlots |-> lists.attrValueSlots]

\* ------------------------------------------------------------ the program
\* The template literals of the page.  Each is a TemplateStringsArray; its
\* identity is its index in this list.
Sources ==
    << \* html`<p>${}</p>`
       << <<"<p", ">">>, <<"</p>">> >>,
       \* html`<ul>${}</ul>`
       << <<"<ul", ">">>, <<"</ul>">> >>,
       \* html`<div class="${}">`
       << <<"<div", "class=">>, <<"Q", ">">> >>,
       \* html`a${}b`
       << <<"a">>, <<"b">> >>,
       \* html`<p>${}${}</p>`
       << <<"<p", ">">>, <<>>, <<"</p>">> >>,
       \* html`<p>${}a${}</p>`
       << <<"<p", ">">>, <<"a">>, <<"</p>">> >>,
       \* html`<div id="${}">${}<b></b></div>`
       << <<"<div", "id=">>, <<"Q", ">">>, <<"<b", ">", "</b>", "</div>">> >>,
       \* html`<p class="x${}"></p>`
       << <<"<p", "class=", "x">>, <<"Q", ">", "</p>">> >>,
       \* html`<!--${}-->`
       << <<"<!--">>, <<"-->">> >>,
       \* html`<p>#</p>`: the replacement character in the literal text
       << <<"<p", ">", replacement, "</p>">> >>,
       \* html`<p>a</p>`
       << <<"<p", ">", "a", "</p>">> >> >>

SourceIds == 1..Len(Sources)

\* createTemplate of every template literal
Compiled == [s \in SourceIds |-> createTemplate(Sources[s])]

\* The nodes the page made itself before it calls the library: an
\* element, a text node and a document fragment, all detached.
UserElement == 1

UserText == 2

UserFragment == 3

UserNodes == {UserElement, UserText, UserFragment}

PageHeap ==
    [EmptyHeap(MaxNodes) EXCEPT
        ![UserElement] = NewNode("elem", "li", <<>>, <<>>),
        ![UserText] = NewNode("text", "", <<"t">>, <<>>),
        ![UserFragment] = NewNode("frag", "", <<>>, <<>>)]

\* the strings the page passes as arguments
ArgStrings == {<<"x">>}

ArgValues ==
    {StringArg(s) : s \in ArgStrings} \cup {NodeArg(n) : n \in UserNodes}
        \cup {NullArg, FalseArg, UndefinedArg}

\* argument lists of length n
ArgLists(n) == [1..n -> ArgValues]

\* A node nothing can reach any more is reclaimed: it has no parent, it is
\* not one of the page's own nodes, and no instance names it as a fragment
\* or a boundary.
Held(insts) ==
    UserNodes
      \cup {insts[k].fragment : k \in 1..Len(insts)}
      \cup UNION {UNION {{insts[k].slots[i].startAfter, insts[k].slots[i].endBefore,
                          insts[k].slots[i].element} : i \in 1..Len(insts[k].slots)}
                    : k \in 1..Len(insts)}

Reclaim(d, insts) ==
    [n \in DOMAIN d |->
        IF /\ d[n].kind \in {"text", "comment"}
           /\ d[n].parent = NULL
           /\ n \notin Held(insts)
        THEN FreeNode
        ELSE d[n]]

NoTemplate == [thrown |-> TRUE, content |-> <<>>, slots |-> <<>>]

\* the record of a call: which one, on which instance and slot, with which
\* arguments, the region it found, whether it threw or warned, what it
\* returned, and (retry) whether it repeats a call on the same template
\* literal that threw in createTemplate just before
NoOp ==
    [op |-> "none", source |-> 0, slot |-> 0, args |-> <<>>,
     current |-> <<>>, thrown |-> FALSE, warned |-> FALSE,
     result |-> NULL, retry |-> FALSE]

VARIABLES
    dom,        \* the heap of the page's nodes
    templates,  \* html.ts: the cache, template literal -> Template
    instances,  \* the results of html.instance the page holds
    last,       \* the last call and what it did
    compiles    \* how many times createTemplate has returned, per literal

vars == <<dom, templates, instances, last, compiles>>

Init ==
    /\ dom = PageHeap
    /\ templates = [s \in SourceIds |-> NoTemplate]
    /\ instances = <<>>
    /\ last = NoOp
    /\ compiles = [s \in SourceIds |-> 0]

\* a lookup that never finds anything
MissesAlways(s) == TRUE

\* !template: templates.get(strings) found nothing, createTemplate is run
Misses(s) == templates[s] = NoTemplate

\* templates.get(strings), else createTemplate and templates.set
Lookup(s) == IF Misses(s) THEN Compiled[s] ELSE templates[s]

\* the three tagged functions
CallOps == {"html", "element", "instance"}

\* the call before this one was on the same literal and threw in
\* createTemplate
Retried(s) == last.op \in CallOps /\ last.source = s /\ last.thrown /\ Misses(s)

Called(op, s, args, thrown, warned, result) ==
    [NoOp EXCEPT !.op = op, !.source = s, !.args = args, !.thrown = thrown,
                 !.warned = warned, !.result = result, !.retry = Retried(s)]

\* template = createTemplate(...); templates.set(strings, template)
Cache(s, template) ==
    /\ templates' = [templates EXCEPT ![s] = template]
    /\ compiles' = [compiles EXCEPT ![s] = IF Misses(s) THEN @ + 1 ELSE @]

\* html.instance(strings, ...args).  (template and r are bound by a
\* quantifier over a one-element set so that each is computed once.)
HtmlInstance(s, args) ==
    \E template \in {Lookup(s)} :
       IF template.thrown
       THEN /\ last' = Called("instance", s, args, TRUE, FALSE, NULL)
            /\ UNCHANGED <<dom, templates, instances, compiles>>
       ELSE /\ HasRoomAbove(dom, Cardinality(Used(template.content)))
            /\ Cache(s, template)
            /\ \E r \in {createTemplateInstance(dom, template, args)} :
                  /\ instances' = IF r.thrown THEN instances
                                  ELSE Append(instances,
                                              [source |-> s, fragment |-> r.fragment,
                                               slots |-> r.slots,
                                               nodeSlots |-> r.nodeSlots,
                                               attrValueSlots |-> r.attrValueSlots])
                  /\ dom' = Reclaim(r.d, instances')
                  /\ last' = Called("instance", s, args, r.thrown, r.warned,
                                    IF r.thrown THEN NULL ELSE r.fragment)

\* an html that stores what createTemplate was building even when it throws
HtmlCachesFailure(s, args) ==
    \E template \in {Lookup(s)} :
       /\ HasRoomAbove(dom, Cardinality(Used(template.content)))
       /\ Cache(s, template)
       /\ \E r \in {createTemplateInstance(dom, template, args)} :
             /\ dom' = IF template.thrown THEN dom ELSE Reclaim(r.d, instances)
             /\ last' = Called("html", s, args, template.thrown \/ r.thrown, r.warned,
                               IF template.thrown \/ r.thrown THEN NULL ELSE r.fragment)
       /\ UNCHANGED instances

\* html(strings, ...args): the fragment is all the page gets
Html(s, args) ==
    \E template \in {Lookup(s)} :
       IF template.thrown
       THEN /\ last' = Called("html", s, args, TRUE, FALSE, NULL)
            /\ UNCHANGED <<dom, templates, instances, compiles>>
       ELSE /\ HasRoomAbove(dom, Cardinality(Used(template.content)))
            /\ Cache(s, template)
            /\ \E r \in {createTemplateInstance(dom, template, args)} :
                  /\ dom' = Reclaim(r.d, instances)
                  /\ last' = Called("html", s, args, r.thrown, r.warned,
                                    IF r.thrown THEN NULL ELSE r.fragment)
            /\ UNCHANGED instances

\* template.content.childElementCount
childElementCount(d, n) ==
    Cardinality({i \in 1..Len(d[n].kids) : d[d[n].kids[i]].kind = "elem"})

\* fragment.firstElementChild, NULL when there is none
firstElementChild(d, n) ==
    IF childElementCount(d, n) = 0 THEN NULL
    ELSE d[n].kids[CHOOSE i \in 1..Len(d[n].kids) :
                      /\ d[d[n].kids[i]].kind = "elem"
                      /\ \A j \in 1..(i - 1) : d[d[n].kids[j]].kind # "elem"]

\* html.element(strings, ...args)
HtmlElement(s, args) ==
    \E template \in {Lookup(s)} :
       IF template.thrown
       THEN /\ last' = Called("element", s, args, TRUE, FALSE, NULL)
            /\ UNCHANGED <<dom, templates, instances, compiles>>
       ELSE IF childElementCount(template.content, ContentRoot) # 1
       THEN /\ Cache(s, template)
            /\ last' = Called("element", s, args, TRUE, FALSE, NULL)
            /\ UNCHANGED <<dom, instances>>
       ELSE /\ HasRoomAbove(dom, Cardinality(Used(template.content)))
            /\ Cache(s, template)
            /\ \E r \in {createTemplateInstance(dom, template, args)} :
                  /\ dom' = Reclaim(r.d, instances)
                  /\ last' = Called("element", s, args, r.thrown, r.warned,
                                    IF r.thrown THEN NULL
                                    ELSE firstElementChild(r.d, r.fragment))
            /\ UNCHANGED instances

\* instance.slots[i].update(arg)
SlotUpdate(k, i, arg) ==
    \E slot \in {instances[k].slots[i]} :
       /\ arg.t = "string" => HasRoom(dom)
       /\ \E r \in {updateSlot(dom, slot, arg)} :
             /\ dom' = Reclaim(r.d, instances)
             /\ last' = [op |-> "update", source |-> k, slot |-> i, args |-> <<arg>>,
                         current |-> IF slot.type = "node"
                                     THEN collectChildNodes(dom, slot.startAfter,
                                                            slot.endBefore)
                                     ELSE <<>>,
                         thrown |-> r.thrown, warned |-> r.warned,
                         result |-> NULL, retry |-> FALSE]
       /\ UNCHANGED <<templates, instances, compiles>>

\* ---- what the page does to the slots' contents with the DOM's own methods
\* (README: "you can do whatever you like to the contents of the slots")
NodeSlots == {a \in UNION {{instances[k].slots[i] : i \in 1..Len(instances[k].slots)}
                              : k \in 1..Len(instances)} : a.type = "node"}

Boundaries == UNION {{a.startAfter, a.endBefore} : a \in NodeSlots}

Range(s) == {s[i] : i \in 1..Len(s)}

\* the nodes now in some region
RegionNodes ==
    UNION {Range(collectChildNodes(dom, a.startAfter, a.endBefore)) : a \in NodeSlots}

\* ref.before(n): one of the page's nodes is put in front of a node of a
\* region or of a region's end boundary
ExtBefore(ref, n) ==
    /\ ref # n
    /\ dom[ref].parent # NULL
    /\ ~beforeThrows(dom, ref, n)
    /\ dom' = Reclaim(before(dom, ref, n), instances)
    /\ last' = [NoOp EXCEPT !.op = "before"]
    /\ UNCHANGED <<templates, instances, compiles>>

\* n.remove() of a node in a region that is no slot's boundary
ExtRemove(n) ==
    /\ dom' = Reclaim(remove(dom, n), instances)
    /\ last' = [NoOp EXCEPT !.op = "remove"]
    /\ UNCHANGED <<templates, instances, compiles>>

\* fragment.append(n) on the page's own document fragment
ExtFragmentAppend(n) ==
    /\ dom' = Reclaim(appendChild(remove(dom, n), UserFragment, n), instances)
    /\ last' = [NoOp EXCEPT !.op = "append"]
    /\ UNCHANGED <<templates, instances, compiles>>

\* The page makes one instance, then updates its slots and changes their
\* contents in any order.
Next ==
    \/ /\ instances = <<>>
       /\ \E s \in SourceIds : \E args \in ArgLists(Len(Sources[s]) - 1) :
             HtmlInstance(s, args)
    \/ \E k \in 1..Len(instances) : \E i \in 1..Len(instances[k].slots) :
          \E arg \in ArgValues : SlotUpdate(k, i, arg)
    \/ \E ref \in RegionNodes \cup {a.endBefore : a \in NodeSlots} :
          \E n \in UserNodes : ExtBefore(ref, n)
    \/ \E n \in RegionNodes \ Boundaries : ExtRemove(n)
    \/ \E n \in UserNodes \ {UserFragment} : ExtFragmentAppend(n)

Spec == Init /\ [][Next]_vars

\* ---- A page that only calls the tagged functions, any of the three on any
\* of a few template literals, as often as the heap allows, and updates
\* the slots of the instances it got.  It has one element of its own.
CallSources == {1, 4, 8, 11}

CallsHeap ==
    [EmptyHeap(MaxNodes) EXCEPT ![UserElement] = NewNode("elem", "li", <<>>, <<>>)]

CallArgs == {StringArg(<<"x">>), NodeArg(UserElement), NullArg}

CallArgLists(n) == [1..n -> CallArgs]

CallsInit ==
    /\ dom = CallsHeap
    /\ templates = [s \in SourceIds |-> NoTemplate]
    /\ instances = <<>>
    /\ last = NoOp
    /\ compiles = [s \in SourceIds |-> 0]

CallsNext ==
    \/ \E s \in CallSources : \E args \in CallArgLists(Len(Sources[s]) - 1) :
          Html(s, args)
    \/ \E s \in CallSources : \E args \in CallArgLists(Len(Sources[s]) - 1) :
          HtmlElement(s, args)
    \/ \E s \in CallSources : \E args \in CallArgLists(Len(Sources[s]) - 1) :
          HtmlInstance(s, args)
    \/ \E k \in 1..Len(instances) : \E i \in 1..Len(instances[k].slots) :
          \E arg \in CallArgs : SlotUpdate(k, i, arg)

CallsSpec == CallsInit /\ [][CallsNext]_vars

\* ---- html.instance's childSlots (html.ts:107-142), one handle per node
\* anchor, in the order of nodeSlots
RECURSIVE RemoveAll(_, _)
RemoveAll(d, ns) ==
    IF ns = <<>> THEN d ELSE RemoveAll(remove(d, Head(ns)), Tail(ns))

\* the DOM's conversion of the items of before/after/prepend into nodes: a
\* new text node for every string; st is the heap and the nodes so far
RECURSIVE ConvertItems(_, _)
ConvertItems(st, items) ==
    IF items = <<>> THEN st
    ELSE IF Head(items).t = "string"
    THEN ConvertItems([d |-> createTextNode(st.d, Head(items).s),
                       nodes |-> Append(st.nodes, Fresh(st.d))], Tail(items))
    ELSE ConvertItems([st EXCEPT !.nodes = Append(@, Head(items).n)], Tail(items))

\* the first sibling before n that is not one of ns, NULL when none
RECURSIVE ViablePrevious(_, _, _)
ViablePrevious(d, n, ns) ==
    LET prev == previousSibling(d, n)
    IN IF prev = NULL \/ ~InSeq(ns, prev) THEN prev ELSE ViablePrevious(d, prev, ns)

\* the first sibling after n that is not one of ns, NULL when none
RECURSIVE ViableNext(_, _, _)
ViableNext(d, n, ns) ==
    LET next == nextSibling(d, n)
    IN IF next = NULL \/ ~InSeq(ns, next) THEN next ELSE ViableNext(d, next, ns)

FirstChild(d, p) == IF d[p].kids = <<>> THEN NULL ELSE d[p].kids[1]

\* this.before(...nodes): nothing when this has no parent
beforeAll(d, this, ns) ==
    LET p == d[this].parent
        viablePrev == ViablePrevious(d, this, ns)
        d1 == RemoveAll(d, ns)
    IN IF p = NULL THEN d
       ELSE InsertAll(d1, p, ns, IF viablePrev = NULL THEN FirstChild(d1, p)
                                 ELSE nextSibling(d1, viablePrev))

\* this.after(...nodes): nothing when this has no parent
afterAll(d, this, ns) ==
    IF d[this].parent = NULL THEN d
    ELSE InsertAll(RemoveAll(d, ns), d[this].parent, ns, ViableNext(d, this, ns))

\* parent.prepend(...nodes)
prependAll(d, p, ns) ==
    InsertAll(RemoveAll(d, ns), p, ns, FirstChild(RemoveAll(d, ns), p))

\* range() throws when a boundary it is set by has no parent
rangeThrows(d, slot) ==
    \/ slot.startAfter # NULL /\ d[slot.startAfter].parent = NULL
    \/ d[slot.endBefore].parent = NULL

\* range().deleteContents(): the children between the boundaries go
deleteContents(d, slot) ==
    RemoveAll(d, collectChildNodes(d, slot.startAfter, slot.endBefore))

Strings(items) == Cardinality({i \in 1..Len(items) : items[i].t = "string"})

FreeCount(d) == Cardinality({n \in DOMAIN d : d[n].kind = "free"})

ChildCalled(op, k, j, items, thrown) ==
    [NoOp EXCEPT !.op = op, !.source = k, !.slot = j, !.args = items, !.thrown = thrown]

\* childSlots[j].clear()
ChildClear(k, j) ==
    \E slot \in {instances[k].nodeSlots[j]} :
       /\ dom' = IF rangeThrows(dom, slot) THEN dom
                 ELSE Reclaim(deleteContents(dom, slot), instances)
       /\ last' = ChildCalled("clear", k, j, <<>>, rangeThrows(dom, slot))
       /\ UNCHANGED <<templates, instances, compiles>>

\* childSlots[j].prepend(...items)
ChildPrepend(k, j, items) ==
    \E slot \in {instances[k].nodeSlots[j]} :
       /\ FreeCount(dom) >= Strings(items)
       /\ \E conv \in {ConvertItems([d |-> dom, nodes |-> <<>>], items)} :
             IF slot.startAfter # NULL
             THEN /\ dom' = Reclaim(afterAll(conv.d, slot.startAfter, conv.nodes), instances)
                  /\ last' = ChildCalled("prepend", k, j, items, FALSE)
             ELSE IF dom[slot.endBefore].parent = NULL
             THEN /\ dom' = dom
                  /\ last' = ChildCalled("prepend", k, j, items, TRUE)
             ELSE /\ dom' = Reclaim(prependAll(conv.d, dom[slot.endBefore].parent,
                                                conv.nodes), instances)
                  /\ last' = ChildCalled("prepend", k, j, items, FALSE)
       /\ UNCHANGED <<templates, instances, compiles>>

\* childSlots[j].append(...items)
ChildAppend(k, j, items) ==
    \E slot \in {instances[k].nodeSlots[j]} :
       /\ FreeCount(dom) >= Strings(items)
       /\ \E conv \in {ConvertItems([d |-> dom, nodes |-> <<>>], items)} :
             dom' = Reclaim(beforeAll(conv.d, slot.endBefore, conv.nodes), instances)
       /\ last' = ChildCalled("append", k, j, items, FALSE)
       /\ UNCHANGED <<templates, instances, compiles>>

\* childSlots[j].replace(...items)
ChildReplace(k, j, items) ==
    \E slot \in {instances[k].nodeSlots[j]} :
       /\ FreeCount(dom) >= Strings(items)
       /\ IF rangeThrows(dom, slot)
          THEN dom' = dom
          ELSE \E conv \in {ConvertItems([d |-> deleteContents(dom, slot),
                                          nodes |-> <<>>], items)} :
                  dom' = Reclaim(beforeAll(conv.d, slot.endBefore, conv.nodes), instances)
       /\ last' = ChildCalled("replace", k, j, items, rangeThrows(dom, slot))
       /\ UNCHANGED <<templates, instances, compiles>>

\* ---- A page that makes one instance and then works on its node slots
\* through the childSlots handles and through slots[i].update, in any order.
ChildSources == {1, 4, 5, 6}

ChildArgs == {StringArg(<<"x">>), NullArg}

\* the item lists the page passes to prepend, append and replace
ItemLists ==
    {<<StringArg(<<"x">>)>>,
     <<NodeArg(UserElement)>>,
     <<NodeArg(UserText), NodeArg(UserElement)>>}

ChildSlotsNext ==
    \/ /\ instances = <<>>
       /\ \E s \in ChildSources :
             \E args \in [1..(Len(Sources[s]) - 1) -> {StringArg(<<"x">>), NullArg}] :
                HtmlInstance(s, args)
    \/ \E k \in 1..Len(instances) : \E i \in 1..Len(instances[k].slots) :
          \E arg \in ChildArgs : SlotUpdate(k, i, arg)
    \/ \E k \in 1..Len(instances) : \E j \in 1..Len(instances[k].nodeSlots) :
          ChildClear(k, j)
    \/ \E k \in 1..Len(instances) : \E j \in 1..Len(instances[k].nodeSlots) :
          \E items \in ItemLists : ChildPrepend(k, j, items)
    \/ \E k \in 1..Len(instances) : \E j \in 1..Len(instances[k].nodeSlots) :
          \E items \in ItemLists : ChildAppend(k, j, items)
    \/ \E k \in 1..Len(instances) : \E j \in 1..Len(instances[k].nodeSlots) :
          \E items \in ItemLists : ChildReplace(k, j, items)

ChildSlotsSpec == Init /\ [][ChildSlotsNext]_vars

\* =================================================================== claims
\* The region of a node anchor read off its parent's child list: the
\* children after startAfter (from the first child when there is none) and
\* before endBefore.
Region(d, a) ==
    LET ks == d[d[a.endBefore].parent].kids
        from == IF a.startAfter = NULL THEN 0 ELSE Pos(ks, a.startAfter)
    IN SubSeq(ks, from + 1, Pos(ks, a.endBefore) - 1)

\* An anchor is valid when its boundaries are attached: endBefore has a
\* parent, and startAfter, when there is one, is an earlier child of the
\* same parent.
Valid(d, a) ==
    /\ d[a.endBefore].kind # "free"
    /\ d[a.endBefore].parent # NULL
    /\ a.startAfter # NULL =>
          /\ d[a.startAfter].parent = d[a.endBefore].parent
          /\ Pos(d[d[a.endBefore].parent].kids, a.startAfter)
                < Pos(d[d[a.endBefore].parent].kids, a.endBefore)

\* the first text node of a list of nodes, NULL when it has none
FirstText(d, ns) ==
    IF \E i \in 1..Len(ns) : d[ns[i]].kind = "text"
    THEN ns[CHOOSE i \in 1..Len(ns) :
                /\ d[ns[i]].kind = "text"
                /\ \A j \in 1..(i - 1) : d[ns[j]].kind # "text"]
    ELSE NULL

Detached(d, n) == d[n].parent = NULL

\* strings an update is tried with in the claims below
CheckStrings == {<<>>, <<"x">>, <<"y">>, <<"x", "y">>}

\* whether the string update of anchor a can get the node it may need
CanCreate(d, a) == HasRoom(d) \/ FirstText(d, Region(d, a)) # NULL

TheSlot == instances[last.source].slots[last.slot]

\* ---- C1
\* C1: createTemplate returns a template only when it found as many slots
\* as there are interpolations (strings.length - 1); otherwise it throws,
\* nothing is cached and no instance is made.
C1_SlotCountChecked ==
    /\ \A s \in SourceIds :
          templates[s] # NoTemplate => Len(templates[s].slots) = Len(Sources[s]) - 1
    /\ \A k \in 1..Len(instances) :
          Len(instances[k].slots) = Len(Sources[instances[k].source]) - 1
    /\ last.op = "instance" =>
          (last.thrown <=>
              Len(createTemplate(Sources[last.source]).slots) # Len(Sources[last.source]) - 1)
    /\ (last.op = "instance" /\ last.thrown) =>
          /\ templates[last.source] = NoTemplate
          /\ instances = <<>>
          /\ Used(dom) = UserNodes

\* a compile that found no slot for its one interpolation has thrown
C1_Witness ==
    /\ last.op = "instance"
    /\ last.thrown
    /\ Len(Sources[last.source]) = 2
    /\ createTemplate(Sources[last.source]).slots = <<>>

\* ---- C2
\* C2: in every reachable state, updating a valid node anchor with a string
\* s leaves exactly one node in its region, a text node with data s: the
\* region's first text node when it had one, otherwise a new text node
\* right before endBefore; every other node of the region is detached.
C2_StringLeavesOneText ==
    \A a \in NodeSlots : \A s \in CheckStrings :
       (Valid(dom, a) /\ CanCreate(dom, a)) =>
          LET cur == Region(dom, a)
              found == FirstText(dom, cur)
              r == updateNodeSlot(dom, a, StringArg(s))
              reg == Region(r.d, a)
          IN /\ ~r.thrown
             /\ Valid(r.d, a)
             /\ Len(reg) = 1
             /\ r.d[reg[1]].kind = "text"
             /\ r.d[reg[1]].data = s
             /\ found # NULL => reg[1] = found
             /\ found = NULL => /\ dom[reg[1]].kind = "free"
                                /\ nextSibling(r.d, reg[1]) = a.endBefore
             /\ \A i \in 1..Len(cur) : cur[i] # reg[1] => Detached(r.d, cur[i])

\* a string update has acted on a region that held several nodes, a text
\* node not the first of them
C2_Witness ==
    /\ last.op = "update"
    /\ last.args[1].t = "string"
    /\ TheSlot.type = "node"
    /\ Len(last.current) >= 2
    /\ dom[last.current[1]].kind = "elem"
    /\ Valid(dom, TheSlot)
    /\ Len(Region(dom, TheSlot)) = 1
    /\ Region(dom, TheSlot)[1] \in Range(last.current)
    /\ dom[Region(dom, TheSlot)[1]].data = last.args[1].s

\* ---- C3
\* C3: in every reachable state, updating a valid node anchor with a single
\* node n leaves exactly n in its region: n is passed to before() (and ends
\* up right before endBefore) only when it was not in the region, and every
\* other node of the region is detached.
C3_NodeLeavesThatNode ==
    \A a \in NodeSlots : \A n \in UserNodes \ {UserFragment} :
       Valid(dom, a) =>
          LET cur == Region(dom, a)
              r == updateNodeSlot(dom, a, NodeArg(n))
          IN /\ ~r.thrown
             /\ Valid(r.d, a)
             /\ Region(r.d, a) = <<n>>
             /\ InSeq(cur, n) => r.inserted = <<>>
             /\ ~InSeq(cur, n) => r.inserted = <<n>>
             /\ \A i \in 1..Len(cur) : cur[i] # n => Detached(r.d, cur[i])

\* a node update has acted on a region that already held the node, among
\* others
C3_Witness ==
    /\ last.op = "update"
    /\ last.args[1].t = "node"
    /\ last.args[1].n = UserElement
    /\ TheSlot.type = "node"
    /\ Len(last.current) >= 2
    /\ InSeq(last.current, UserElement)
    /\ Valid(dom, TheSlot)
    /\ Region(dom, TheSlot) = <<UserElement>>

\* ---- C4
AbsentArgs == {NullArg, UndefinedArg, FalseArg}

\* C4: in every reachable state, updating a valid node anchor with null,
\* undefined or false leaves its region empty, doing so again changes
\* nothing, and the tree is the one an update with an empty document
\* fragment gives.
C4_AbsentClears ==
    \A a \in NodeSlots : \A arg \in AbsentArgs :
       Valid(dom, a) =>
          LET cur == Region(dom, a)
              r == updateNodeSlot(dom, a, arg)
              again == updateNodeSlot(r.d, a, arg)
          IN /\ ~r.thrown
             /\ Valid(r.d, a)
             /\ Region(r.d, a) = <<>>
             /\ \A i \in 1..Len(cur) : Detached(r.d, cur[i])
             /\ again.d = r.d
             /\ again.removed = <<>>
             /\ dom[UserFragment].kids = <<>> =>
                   updateNodeSlot(dom, a, NodeArg(UserFragment)).d = r.d

\* an update with false has emptied a region that held several nodes
C4_Witness ==
    /\ last.op = "update"
    /\ last.args[1] = FalseArg
    /\ TheSlot.type = "node"
    /\ Len(last.current) >= 2
    /\ Valid(dom, TheSlot)
    /\ Region(dom, TheSlot) = <<>>
    /\ dom[UserFragment].kids = <<>>

\* ---- C5
\* C5: right after an update of a valid node anchor with a string, the same
\* update again changes nothing: it inserts no node, removes no node, and
\* the region holds the same single text node with that data.
C5_SameStringTwice ==
    (/\ last.op = "update"
     /\ last.args[1].t = "string"
     /\ TheSlot.type = "node"
     /\ Valid(dom, TheSlot)) =>
        LET r == updateNodeSlot(dom, TheSlot, last.args[1])
        IN /\ r.inserted = <<>>
           /\ r.removed = <<>>
           /\ r.d = dom
           /\ Len(Region(dom, TheSlot)) = 1
           /\ Region(r.d, TheSlot) = Region(dom, TheSlot)
           /\ r.d[Region(r.d, TheSlot)[1]].kind = "text"
           /\ r.d[Region(r.d, TheSlot)[1]].data = last.args[1].s

\* a string update has acted on a region with no text node, so that it
\* made one
C5_Witness ==
    /\ last.op = "update"
    /\ last.args[1].t = "string"
    /\ TheSlot.type = "node"
    /\ Valid(dom, TheSlot)
    /\ last.current # <<>>
    /\ Region(dom, TheSlot)[1] \notin Range(last.current)

\* ---- C6
\* the node(s) an update sets: the region's first text node or else the
\* node about to be created for a string, the node itself for a node,
\* nothing for an absent value
KeptBy(d, a, arg) ==
    IF arg.t = "string"
    THEN (IF FirstText(d, Region(d, a)) # NULL
          THEN {FirstText(d, Region(d, a))} ELSE {Fresh(d)})
    ELSE IF arg.t = "node" THEN {arg.n}
    ELSE {}

C6Args ==
    {StringArg(s) : s \in CheckStrings}
       \cup {NodeArg(n) : n \in UserNodes \ {UserFragment}} \cup AbsentArgs

\* C6: in every reachable state, whatever the page did to the region since
\* the last update, the nodes an update collects are exactly the nodes now
\* between the boundaries (also when there is no startAfter), and it calls
\* remove() on every one of them except the one being set, so that nothing
\* else is left in the region.
C6_RegionRecomputed ==
    \A a \in NodeSlots :
       Valid(dom, a) =>
          /\ collectChildNodes(dom, a.startAfter, a.endBefore) = Region(dom, a)
          /\ \A arg \in C6Args :
                (arg.t = "string" => CanCreate(dom, a)) =>
                   LET r == updateNodeSlot(dom, a, arg)
                       kept == KeptBy(dom, a, arg)
                   IN /\ r.removed = SelectSeq(Region(dom, a), LAMBDA m : m \notin kept)
                      /\ \A m \in Range(Region(dom, a)) \ kept : Detached(r.d, m)
                      /\ Range(Region(r.d, a)) \subseteq kept

\* an update has acted on a region that starts at its parent's first child
\* and in which the page had put one of its nodes in front of the content
\* (the library itself only ever inserts right before endBefore), and has
\* removed that node
C6_Witness ==
    /\ last.op = "update"
    /\ TheSlot.type = "node"
    /\ TheSlot.startAfter = NULL
    /\ Len(last.current) >= 2
    /\ last.current[1] \in UserNodes
    /\ last.current[2] \notin UserNodes
    /\ Valid(dom, TheSlot)
    /\ Len(Region(dom, TheSlot)) <= 1
    /\ Detached(dom, last.current[1])

\* ---- C7
\* C7: whatever updates were made, every node anchor is still valid: its
\* endBefore, and its startAfter when it has one, are attached under one
\* parent, startAfter first.  (The page never removes or moves a boundary
\* in this model.)
C7_BoundariesStayValid ==
    \A a \in NodeSlots : Valid(dom, a)

\* ---- C8
IsSource(s, strings) == s \in SourceIds /\ Sources[s] = strings

\* the element a one-element template's instance holds
TheElement == dom[instances[1].fragment].kids[1]

C8Case ==
    /\ last.op = "instance"
    /\ IsSource(last.source, << <<"<p", ">">>, <<"</p>">> >>)
    /\ last.args[1].t = "string"

\* C8 as claimed: html.instance`<p>${s}</p>` gives a p element whose sole
\* child is a text node with data s.
C8_SoleChild ==
    C8Case =>
       /\ ~last.thrown
       /\ Len(dom[instances[1].fragment].kids) = 1
       /\ dom[TheElement].name = "p"
       /\ Len(dom[TheElement].kids) = 1
       /\ dom[dom[TheElement].kids[1]].kind = "text"
       /\ dom[dom[TheElement].kids[1]].data = last.args[1].s

\* C8 amended: html.instance`<p>${s}</p>` gives a p element with two
\* children, a text node with data s, which is the whole region of the
\* slot, and after it the empty text node that is the slot's endBefore.
C8_TextThenBoundary ==
    C8Case =>
       /\ ~last.thrown
       /\ Len(dom[instances[1].fragment].kids) = 1
       /\ dom[TheElement].name = "p"
       /\ Len(dom[TheElement].kids) = 2
       /\ dom[dom[TheElement].kids[1]].kind = "text"
       /\ dom[dom[TheElement].kids[1]].data = last.args[1].s
       /\ dom[dom[TheElement].kids[2]].kind = "text"
       /\ dom[dom[TheElement].kids[2]].data = <<>>
       /\ instances[1].slots[1] = NodeSlot(NULL, dom[TheElement].kids[2])
       /\ Region(dom, instances[1].slots[1]) = <<dom[TheElement].kids[1]>>

C8_Witness == C8Case /\ instances # <<>>

\* ---- C9
C9Case ==
    /\ last.op = "instance"
    /\ IsSource(last.source, << <<"<ul", ">">>, <<"</ul>">> >>)
    /\ last.args[1] = NullArg

\* C9 as claimed: html.instance`<ul>${null}</ul>` gives a ul element with
\* zero children and a node anchor whose region is empty.
C9_ZeroChildren ==
    C9Case =>
       /\ ~last.thrown
       /\ dom[TheElement].name = "ul"
       /\ dom[TheElement].kids = <<>>

\* C9 amended: html.instance`<ul>${null}</ul>` gives a ul element whose
\* only child is the empty text node that is the slot's endBefore, and
\* the region of the slot is empty.
C9_OnlyBoundary ==
    C9Case =>
       /\ ~last.thrown
       /\ Len(dom[instances[1].fragment].kids) = 1
       /\ dom[TheElement].name = "ul"
       /\ Len(dom[TheElement].kids) = 1
       /\ dom[dom[TheElement].kids[1]].kind = "text"
       /\ dom[dom[TheElement].kids[1]].data = <<>>
       /\ instances[1].slots[1] = NodeSlot(NULL, dom[TheElement].kids[1])
       /\ Region(dom, instances[1].slots[1]) = <<>>

C9_Witness == C9Case /\ instances # <<>>

\* ---- C10
AttrSlots == {a \in UNION {{instances[k].slots[i] : i \in 1..Len(instances[k].slots)}
                              : k \in 1..Len(instances)} : a.type = "attr-value"}

\* what the update rule makes of an attribute for an argument
AttrAsRuled(d, a, arg) ==
    IF arg.t = "string"
    THEN HasAttr(d, a.element, a.name) /\ GetAttr(d, a.element, a.name) = arg.s
    ELSE ~HasAttr(d, a.element, a.name)

\* C10: in every reachable state an attribute anchor updated with a string
\* has exactly that value, and updated with null, undefined, false or a
\* node has no such attribute; only the node draws a warning and nothing
\* throws.  An instantiation that passed a node to an attribute slot has
\* returned its instance, with every slot as the update rule leaves it for
\* its argument.
C10_AttributeRule ==
    /\ \A a \in AttrSlots :
          \A arg \in {StringArg(s) : s \in CheckStrings}
                       \cup {NodeArg(n) : n \in UserNodes} \cup AbsentArgs :
             LET r == updateAttrValueSlot(dom, a, arg)
             IN /\ AttrAsRuled(r.d, a, arg)
                /\ ~r.thrown
                /\ r.warned <=> arg.t = "node"
                /\ \A n \in DOMAIN dom : n # a.element => r.d[n] = dom[n]
    /\ (last.op = "instance" /\ ~createTemplate(Sources[last.source]).thrown) =>
          /\ ~last.thrown
          /\ instances # <<>>
          /\ LET slots == instances[1].slots
             IN /\ last.warned <=>
                      \E i \in 1..Len(slots) :
                         slots[i].type = "attr-value" /\ last.args[i].t = "node"
                /\ \A i \in 1..Len(slots) :
                      /\ slots[i].type = "attr-value" =>
                            AttrAsRuled(dom, slots[i], last.args[i])
                      /\ (slots[i].type = "node" /\ last.args[i].t = "string"
                             /\ Valid(dom, slots[i])) =>
                            /\ Len(Region(dom, slots[i])) = 1
                            /\ dom[Region(dom, slots[i])[1]].data = last.args[i].s

\* an instantiation has passed a node to an attribute slot and a string to
\* the node slot after it
C10_Witness ==
    /\ last.op = "instance"
    /\ last.warned
    /\ instances # <<>>
    /\ Len(instances[1].slots) = 2
    /\ instances[1].slots[1].type = "attr-value"
    /\ last.args[1].t = "node"
    /\ last.args[2].t = "string"
    /\ Len(Region(dom, instances[1].slots[2])) = 1

\* ---- C11
\* an attribute value that contains the marker without being the marker
PartialMarker(value) == InSeq(value, replacement) /\ value # <<replacement>>

\* template t has an attribute-value descriptor for attribute name of e
AttrSlotFor(t, e, name) ==
    \E i \in 1..Len(t.slots) :
       t.slots[i] = [type |-> "attr-value",
                     path |-> pathToNode(t.content, ContentRoot, e),
                     name |-> name]

\* the attributes with a descriptor are those whose whole value is the marker
AttrsAsRuled(t) ==
    \A e \in Used(t.content) : \A i \in 1..Len(t.content[e].attrs) :
       AttrSlotFor(t, e, t.content[e].attrs[i][1])
          <=> t.content[e].attrs[i][2] = <<replacement>>

\* the literal text itself contains the marker character
LiteralMarker(strings) == \E i \in 1..Len(strings) : InSeq(strings[i], replacement)

\* some attribute of the parsed text has the marker inside a longer value
HasPartialMarker(d) ==
    \E e \in Used(d) : \E i \in 1..Len(d[e].attrs) : PartialMarker(d[e].attrs[i][2])

\* C11: only an attribute whose whole value is the marker gets a
\* descriptor.  That holds in every cached template, and in what
\* createTemplate made of a literal on which the last call threw: there
\* every attribute still has the value it was parsed with, and a count of
\* descriptors below the number of interpolations has made the call throw.
C11_WholeValueOnly ==
    /\ \A s \in SourceIds : ~Misses(s) => AttrsAsRuled(templates[s])
    /\ (last.op \in CallOps /\ last.thrown /\ Misses(last.source)) =>
          \A t \in {createTemplate(Sources[last.source])} :
             \A d0 \in {innerHTML(MaxTplNodes, join(Sources[last.source], replacement))} :
                /\ AttrsAsRuled(t)
                /\ \A e \in Used(d0) : t.content[e].attrs = d0[e].attrs
                /\ Len(t.slots) < Len(Sources[last.source]) - 1 => t.thrown
                /\ (HasPartialMarker(d0) /\ ~LiteralMarker(Sources[last.source]))
                      => Len(t.slots) < Len(Sources[last.source]) - 1

\* a call has thrown on a literal with an interpolation inside a longer
\* attribute value
C11_Witness ==
    /\ last.op \in CallOps
    /\ last.thrown
    /\ Misses(last.source)
    /\ HasPartialMarker(innerHTML(MaxTplNodes, join(Sources[last.source], replacement)))
    /\ createTemplate(Sources[last.source]).slots = <<>>

\* ---- C12
\* the nodes above base in heap d are the tree t with every id raised by base
SameTree(d, base, t) ==
    \A n \in Used(t) :
       /\ d[base + n].kind = t[n].kind
       /\ d[base + n].name = t[n].name
       /\ d[base + n].data = t[n].data
       /\ d[base + n].attrs = t[n].attrs
       /\ Len(d[base + n].kids) = Len(t[n].kids)
       /\ \A i \in 1..Len(t[n].kids) : d[base + n].kids[i] = base + t[n].kids[i]
       /\ d[base + n].parent = IF t[n].parent = NULL THEN NULL ELSE base + t[n].parent

C13_CompiledOnce ==
    \A s \in SourceIds :
       /\ compiles[s] <= 1
       /\ compiles[s] = 1 <=> templates[s] # NoTemplate
       /\ templates[s] # NoTemplate => templates[s] = createTemplate(Sources[s])

\* html.instance was called on a literal, and then html or html.element on
\* the same literal returned
C13_Witness ==
    /\ last.op \in {"html", "element"}
    /\ ~last.thrown
    /\ last.result # NULL
    /\ instances # <<>>
    /\ instances[1].source = last.source
    /\ compiles[last.source] = 1

\* ---- C14
\* C14: a call of html, html.element or html.instance on a literal for
\* which createTemplate throws, throws itself and returns nothing, and it
\* leaves the cache without an entry for the literal and the page's nodes,
\* the instances and the other cache entries as they were; this holds for
\* the first such call and for every repetition of it.
C14_FailedCompileNoTrace ==
    [][(last'.op \in CallOps /\ createTemplate(Sources[last'.source]).thrown)
          => /\ last'.thrown
             /\ last'.result = NULL
             /\ templates'[last'.source] = NoTemplate
             /\ compiles'[last'.source] = 0
             /\ UNCHANGED <<dom, templates, instances, compiles>>]_vars

\* a call threw in createTemplate, and the call on the same literal before
\* it had thrown there too
C14_Witness ==
    /\ last.op \in CallOps
    /\ last.retry
    /\ last.thrown
    /\ createTemplate(Sources[last.source]).thrown
    /\ templates[last.source] = NoTemplate

\* ---- C15
\* C15: html.element throws exactly when the content html() makes of the
\* same literal and arguments does not have exactly one top-level element,
\* and otherwise returns an element.
C15_AssertsProducedContent ==
    (/\ last.op = "element"
     /\ ~Misses(last.source)
     /\ HasRoomAbove(dom, Cardinality(Used(templates[last.source].content))))
    => \A r \in {createTemplateInstance(dom, templates[last.source], last.args)} :
          ~r.thrown =>
             /\ last.thrown <=> childElementCount(r.d, r.fragment) # 1
             /\ ~last.thrown => /\ last.result # NULL
                                /\ dom[last.result].kind = "elem"

\* ---- C16
IsNodeSlot(a) == a.type = "node"

IsAttrValueSlot(a) == a.type = "attr-value"

\* The anchor of descriptor i of instance k, read off the template: the
\* clone's nodes are the template's, each id raised by the same amount, so
\* the anchor is made of the clone's copies of the siblings of the node at
\* the descriptor's path (node kind) or of that node itself (attribute).
ExpectedAnchor(k, i) ==
    LET t == templates[instances[k].source]
        base == instances[k].fragment - ContentRoot
        Copy(n) == IF n = NULL THEN NULL ELSE base + n
        node == nodeFromPath(t.content, ContentRoot, t.slots[i].path)
    IN IF t.slots[i].type = "node"
       THEN NodeSlot(Copy(previousSibling(t.content, node)),
                     Copy(nextSibling(t.content, node)))
       ELSE AttrValueSlot(Copy(node), t.slots[i].name)

\* what the value arg makes of anchor a: the attribute is set or absent;
\* the region of an anchor that is still valid is one text node with the
\* string, the node itself, or empty
EffectAt(a, arg) ==
    IF a.type = "attr-value"
    THEN IF arg.t = "string"
         THEN HasAttr(dom, a.element, a.name) /\ GetAttr(dom, a.element, a.name) = arg.s
         ELSE ~HasAttr(dom, a.element, a.name)
    ELSE Valid(dom, a) =>
            IF arg.t = "string"
            THEN /\ Len(Region(dom, a)) = 1
                 /\ dom[Region(dom, a)[1]].kind = "text"
                 /\ dom[Region(dom, a)[1]].data = arg.s
            ELSE IF arg.t = "node"
            THEN dom[arg.n].kind = "frag" \/ Region(dom, a) = <<arg.n>>
            ELSE Region(dom, a) = <<>>

\* C16: an instance has one anchor per descriptor of its template, in the
\* template's order and each made from its own descriptor; nodeSlots and
\* attrValueSlots are the anchors of their kind in that order; right after
\* html.instance returned, the i-th anchor shows the i-th argument (unless
\* a later argument is the same node, which moves it on); and after
\* slots[i].update(arg) the i-th anchor shows arg.
C16_PositionalCorrelation ==
    /\ \A k \in 1..Len(instances) :
          /\ Len(instances[k].slots) = Len(templates[instances[k].source].slots)
          /\ Len(instances[k].slots) = Len(Sources[instances[k].source]) - 1
          /\ \A i \in 1..Len(instances[k].slots) :
                instances[k].slots[i] = ExpectedAnchor(k, i)
          /\ instances[k].nodeSlots = SelectSeq(instances[k].slots, IsNodeSlot)
          /\ instances[k].attrValueSlots = SelectSeq(instances[k].slots, IsAttrValueSlot)
    /\ (last.op = "instance" /\ ~last.thrown) =>
          \A i \in 1..Len(last.args) :
             (\A j \in (i + 1)..Len(last.args) :
                 last.args[i].t = "node" => last.args[j] # last.args[i])
             => EffectAt(ExpectedAnchor(Len(instances), i), last.args[i])
    /\ (last.op = "update" /\ ~last.thrown) =>
          EffectAt(ExpectedAnchor(last.source, last.slot), last.args[1])

\* html.instance returned for a template with an attribute slot and a node
\* slot, given a string for the first and a node for the second
C16_Witness ==
    /\ last.op = "instance"
    /\ ~last.thrown
    /\ Len(instances) = 1
    /\ Len(instances[1].slots) = 2
    /\ instances[1].slots[1].type = "attr-value"
    /\ instances[1].slots[2].type = "node"
    /\ Len(instances[1].nodeSlots) = 1
    /\ Len(instances[1].attrValueSlots) = 1
    /\ last.args[1].t = "string"
    /\ last.args[2].t = "node"
    /\ Valid(dom, instances[1].slots[2])
    /\ Region(dom, instances[1].slots[2]) = <<last.args[2].n>>

\* ---- C17
\* C17: updating a valid node anchor with the page's document fragment
\* does not throw, makes the anchor's region exactly the children the
\* fragment had, in their order, and leaves the fragment without
\* children; updating any node anchor that is valid then with the same
\* fragment again leaves that anchor's region empty.  After such an update
\* was made, the fragment is empty and the region holds the page's nodes.
C17_FragmentMoved ==
    /\ \A a \in NodeSlots :
          Valid(dom, a) =>
             \A r \in {updateNodeSlot(dom, a, NodeArg(UserFragment))} :
                /\ ~r.thrown
                /\ Valid(r.d, a)
                /\ Region(r.d, a) = dom[UserFragment].kids
                /\ r.d[UserFragment].kids = <<>>
                /\ \A b \in NodeSlots :
                      Valid(r.d, b) =>
                         \A r2 \in {updateNodeSlot(r.d, b, NodeArg(UserFragment))} :
                            /\ ~r2.thrown
                            /\ Region(r2.d, b) = <<>>
                            /\ r2.d[UserFragment].kids = <<>>
    /\ (/\ last.op = "update"
        /\ last.args[1] = NodeArg(UserFragment)
        /\ TheSlot.type = "node"
        /\ Valid(dom, TheSlot))
       => /\ ~last.thrown
          /\ dom[UserFragment].kids = <<>>
          /\ \A i \in 1..Len(Region(dom, TheSlot)) :
                Region(dom, TheSlot)[i] \in UserNodes \ {UserFragment}

\* a node anchor was updated with the fragment when that held the page's
\* text node and element: the region is now those two and the fragment is
\* empty
C17_Witness ==
    /\ last.op = "update"
    /\ last.args[1] = NodeArg(UserFragment)
    /\ TheSlot.type = "node"
    /\ Valid(dom, TheSlot)
    /\ Len(Region(dom, TheSlot)) = 2
    /\ Range(Region(dom, TheSlot)) = {UserElement, UserText}
    /\ dom[UserFragment].kids = <<>>

\* ---- C18
\* the nodes of root's subtree in heap d, root included
SubtreeOf(d, root) == {t \in Used(d) : IsInclusiveAncestor(d, root, t)}

RoundTrip(d) ==
    \A root \in Used(d) :
       /\ pathToNode(d, root, root) = <<>>
       /\ \A t \in SubtreeOf(d, root) :
             /\ pathToNode(d, root, t) # PathError
             /\ nodeFromPath(d, root, pathToNode(d, root, t)) = t

\* C18: in the page's nodes as they are in any reachable state, and in the
\* parsed tree of every cached template, for every root and every node t
\* of root's subtree nodeFromPath(root, pathToNode(root, t)) is t, and
\* pathToNode(root, root) is the empty path.
C18_PathRoundTrip ==
    /\ RoundTrip(dom)
    /\ \A s \in SourceIds : ~Misses(s) => RoundTrip(templates[s].content)

\* a node two levels below a root, not a first child, is found again by
\* its path
C18_Witness ==
    \E root \in Used(dom) : \E t \in SubtreeOf(dom, root) :
       /\ Len(pathToNode(dom, root, t)) = 2
       /\ pathToNode(dom, root, t)[2] >= 1
       /\ nodeFromPath(dom, root, pathToNode(dom, root, t)) = t
       /\ t # root

\* ---- C19
\* the node descriptor i of template t points at in the tree d, seen from root
Addressed(d, root, t, i) == nodeFromPath(d, root, t.slots[i].path)

\* every descriptor of t resolves, in the tree d under root, to a text node
\* whose data is the marker and nothing else (node kind) or to an element
\* that has the named attribute with the marker as its value (attribute
\* kind); different descriptors of the node kind resolve to different nodes
AddressesRight(d, root, t) ==
    /\ \A i \in 1..Len(t.slots) :
          /\ Addressed(d, root, t, i) # NULL
          /\ IF t.slots[i].type = "node"
             THEN /\ d[Addressed(d, root, t, i)].kind = "text"
                  /\ d[Addressed(d, root, t, i)].data = <<replacement>>
             ELSE /\ d[Addressed(d, root, t, i)].kind = "elem"
                  /\ HasAttr(d, Addressed(d, root, t, i), t.slots[i].name)
                  /\ GetAttr(d, Addressed(d, root, t, i), t.slots[i].name) = <<replacement>>
    /\ \A i, j \in 1..Len(t.slots) :
          (i < j /\ t.slots[i].type = "node" /\ t.slots[j].type = "node")
             => Addressed(d, root, t, i) # Addressed(d, root, t, j)

\* the text nodes with the marker as data and the attributes with the
\* marker as value in the tree d
Markers(d) ==
    Cardinality({n \in Used(d) : d[n].kind = "text" /\ d[n].data = <<replacement>>})
      + Cardinality({p \in Used(d) \X (1..MaxTplNodes) :
                        /\ d[p[1]].kind = "elem"
                        /\ p[2] <= Len(d[p[1]].attrs)
                        /\ d[p[1]].attrs[p[2]][2] = <<replacement>>})

\* C19: in the parsed tree of every cached template, as it is after the
\* whole walk, and in the clone an instantiation starts from, each
\* descriptor's path resolves to its own marker text node or to the element
\* with the marked attribute; there are as many descriptors as
\* interpolations and as markers in the tree.
C19_AddressesAfterWalk ==
    \A s \in SourceIds :
       ~Misses(s) =>
          /\ Len(templates[s].slots) = Len(Sources[s]) - 1
          /\ Markers(templates[s].content) = Len(templates[s].slots)
          /\ AddressesRight(templates[s].content, ContentRoot, templates[s])
          /\ HasRoomAbove(dom, Cardinality(Used(templates[s].content))) =>
                AddressesRight(importNode(dom, templates[s].content),
                               Top(dom) + ContentRoot, templates[s])

\* a cached template with two node descriptors, the second for a marker
\* that was split off the text in front of it
C19_Witness ==
    \E s \in SourceIds :
       /\ ~Misses(s)
       /\ Len(templates[s].slots) = 2
       /\ templates[s].slots[1].type = "node"
       /\ templates[s].slots[2].type = "node"
       /\ AddressesRight(templates[s].content, ContentRoot, templates[s])
       /\ \E prev \in {previousSibling(templates[s].content,
                                        Addressed(templates[s].content, ContentRoot,
                                                  templates[s], 2))} :
             /\ prev # NULL
             /\ templates[s].content[prev].kind = "text"
             /\ templates[s].content[prev].data \notin {<<>>, <<replacement>>}

\* ---- C20
\* the values args[i], args[i+1], ... given one after the other to the
\* anchors i, i+1, ... that were all made beforehand; stops at a throw
RECURSIVE InOrder(_, _, _, _)
InOrder(st, anchors, args, i) ==
    IF i > Len(anchors) \/ st.thrown THEN st
    ELSE InOrder([d |-> updateSlot(st.d, anchors[i], ArgAt(args, i)).d,
                  thrown |-> updateSlot(st.d, anchors[i], ArgAt(args, i)).thrown],
                 anchors, args, i + 1)

\* C20: a step of html.instance on a template that compiles leaves the
\* page's nodes as they are when every descriptor is first resolved in the
\* untouched clone and only then the values are applied to these anchors in
\* the order of the slots; the anchors the instance keeps are the ones
\* resolved in the untouched clone.
C20_ResolveThenApply ==
    [][(last'.op = "instance" /\ templates'[last'.source] # NoTemplate)
          => \A t \in {templates'[last'.source]} :
             \A pristine \in {importNode(dom, t.content)} :
             \A anchors \in {[i \in 1..Len(t.slots) |->
                                ResolveSlot(pristine, Top(dom) + ContentRoot, t.slots[i])]} :
             \A out \in {InOrder([d |-> pristine, thrown |-> FALSE],
                                 anchors, last'.args, 1)} :
                /\ last'.thrown = out.thrown
                /\ ~out.thrown =>
                      /\ Len(instances') = Len(instances) + 1
                      /\ instances'[Len(instances')].slots = anchors
                      /\ dom' = Reclaim(out.d, instances')]_vars

\* html.instance returned for a template with two node slots, the first
\* given the page's fragment with a node in it: both anchors are valid and
\* the first region holds that node
C20_Witness ==
    /\ last.op = "instance"
    /\ ~last.thrown
    /\ Len(last.args) = 2
    /\ last.args[1] = NodeArg(UserFragment)
    /\ instances[1].slots[1].type = "node"
    /\ instances[1].slots[2].type = "node"
    /\ Valid(dom, instances[1].slots[1])
    /\ Valid(dom, instances[1].slots[2])
    /\ Region(dom, instances[1].slots[1]) # <<>>
    /\ dom[UserFragment].kids = <<>>

\* ---- C21
\* how often the marker occurs in a text
Occurrences(data) == Cardinality({i \in 1..Len(data) : data[i] = replacement})

RECURSIVE SumOccurrences(_, _)
SumOccurrences(d, ns) ==
    IF ns = <<>> THEN 0
    ELSE (IF d[Head(ns)].kind = "text" THEN Occurrences(d[Head(ns)].data) ELSE 0)
            + SumOccurrences(d, Tail(ns))

\* the tree under n written out in document order, the text of adjacent
\* text nodes running together
RECURSIVE Serialize(_, _)
RECURSIVE SerializeAll(_, _)
Serialize(d, n) ==
    IF d[n].kind = "text" THEN d[n].data
    ELSE IF d[n].kind = "comment" THEN <<"<!--">> \o d[n].data \o <<"-->">>
    ELSE <<"<", d[n].name>> \o SerializeAll(d, d[n].kids) \o <<"/>">>

SerializeAll(d, ns) ==
    IF ns = <<>> THEN <<>> ELSE Serialize(d, Head(ns)) \o SerializeAll(d, Tail(ns))

\* path p comes before path q in document order
RECURSIVE PathBefore(_, _)
PathBefore(p, q) ==
    IF q = <<>> THEN FALSE
    ELSE IF p = <<>> THEN TRUE
    ELSE IF Head(p) # Head(q) THEN Head(p) < Head(q)
    ELSE PathBefore(Tail(p), Tail(q))

\* what the walk made (t) of the parsed tree d0
WalkedOnce(d0, t) ==
    /\ \A n \in Used(d0) :
          /\ t.content[n].kind = d0[n].kind
          /\ d0[n].kind \in {"elem", "frag"} =>
                \* as many node descriptors point into n as its texts had markers
                Cardinality({i \in 1..Len(t.slots) :
                                /\ t.slots[i].type = "node"
                                /\ Addressed(t.content, ContentRoot, t, i) # NULL
                                /\ t.content[Addressed(t.content, ContentRoot, t, i)].parent = n})
                   = SumOccurrences(d0, d0[n].kids)
    /\ \A i \in 1..Len(t.slots) :
          t.slots[i].type = "node" =>
             /\ Addressed(t.content, ContentRoot, t, i) # NULL
             /\ t.content[Addressed(t.content, ContentRoot, t, i)].kind = "text"
             /\ t.content[Addressed(t.content, ContentRoot, t, i)].data = <<replacement>>
    /\ \A i, j \in 1..Len(t.slots) :
          (i < j /\ t.slots[i].type = "node" /\ t.slots[j].type = "node")
             => PathBefore(t.slots[i].path, t.slots[j].path)
    /\ Serialize(t.content, ContentRoot) = Serialize(d0, ContentRoot)

\* C21: for the literal of the last html.instance call, whether its
\* compile returned or threw: every parent of the parsed tree has as many
\* node descriptors pointing at children of it as its text nodes had
\* marker occurrences, the descriptors come in document order, each points
\* at a text node whose data is the marker alone, and the tree written out
\* with adjacent texts run together is the parsed tree written out.
C21_WalkOnce ==
    last.op = "instance" =>
       \A t \in {createTemplate(Sources[last.source])} :
       \A d0 \in {innerHTML(MaxTplNodes, join(Sources[last.source], replacement))} :
          /\ ~Misses(last.source) => templates[last.source] = t
          /\ WalkedOnce(d0, t)

\* the last compile was of a literal with one text that held two markers
\* and text between them
C21_Witness ==
    /\ last.op = "instance"
    /\ ~last.thrown
    /\ \E n \in Used(innerHTML(MaxTplNodes, join(Sources[last.source], replacement))) :
          \E data \in {innerHTML(MaxTplNodes,
                                  join(Sources[last.source], replacement))[n].data} :
             /\ Occurrences(data) = 2
             /\ Len(data) = 3
    /\ Len(templates[last.source].slots) = 2

\* ---- C22
\* the marker node of descriptor i in the template of instance k
MarkerOf(k, i) ==
    Addressed(templates[instances[k].source].content, ContentRoot,
              templates[instances[k].source], i)

\* C22: for every node anchor of every instance, with m the marker node
\* its descriptor resolves to: m has a next sibling, endBefore is the
\* clone's copy of it and so is never absent; startAfter is absent exactly
\* when m is the first child of its parent, and otherwise is the copy of
\* m's previous sibling.
C22_EndBeforePresent ==
    \A k \in 1..Len(instances) : \A i \in 1..Len(instances[k].slots) :
       instances[k].slots[i].type = "node" =>
          \A content \in {templates[instances[k].source].content} :
          \A m \in {MarkerOf(k, i)} :
          \A base \in {instances[k].fragment - ContentRoot} :
             /\ m # NULL
             /\ instances[k].slots[i].endBefore # NULL
             /\ nextSibling(content, m) # NULL
             /\ instances[k].slots[i].endBefore = base + nextSibling(content, m)
             /\ instances[k].slots[i].startAfter = NULL
                   <=> content[content[m].parent].kids[1] = m
             /\ instances[k].slots[i].startAfter # NULL =>
                   instances[k].slots[i].startAfter = base + previousSibling(content, m)

\* an instance was made of a template whose interpolation is the only
\* content of its parent: the anchor has no startAfter, and its endBefore
\* is an empty text node, the last child of that parent
C22_Witness ==
    /\ last.op = "instance"
    /\ ~last.thrown
    /\ Len(instances[1].slots) = 1
    /\ instances[1].slots[1].type = "node"
    /\ instances[1].slots[1].startAfter = NULL
    /\ dom[instances[1].slots[1].endBefore].kind = "text"
    /\ dom[instances[1].slots[1].endBefore].data = <<>>
    /\ dom[instances[1].slots[1].endBefore].parent # NULL
    /\ nextSibling(dom, instances[1].slots[1].endBefore) = NULL
    /\ Len(templates[instances[1].source].content[
              templates[instances[1].source].content[MarkerOf(1, 1)].parent].kids) = 2

\* ---- C23
NotDescendantThrows(d) ==
    \A root \in Used(d) : \A target \in Used(d) \ SubtreeOf(d, root) :
       pathToNode(d, root, target) = PathError

\* C23: among the page's nodes in any reachable state, and in the parsed
\* tree of every cached template, pathToNode(root, target) throws and
\* gives no path for every target that is neither root nor in root's
\* subtree.
C23_NotDescendant ==
    /\ NotDescendantThrows(dom)
    /\ \A s \in SourceIds : ~Misses(s) => NotDescendantThrows(templates[s].content)

\* a target with a parent and a previous sibling, in another tree than a
\* root that has children of its own: pathToNode throws
C23_Witness ==
    \E root \in Used(dom) : \E target \in Used(dom) \ SubtreeOf(dom, root) :
       /\ dom[root].kids # <<>>
       /\ dom[target].parent # NULL
       /\ previousSibling(dom, target) # NULL
       /\ ~IsInclusiveAncestor(dom, target, root)
       /\ pathToNode(dom, root, target) = PathError

\* ---- C24
ChildOps == {"clear", "prepend", "append", "replace"}

ItemNodes(items) == {items[i].n : i \in {j \in 1..Len(items) : items[j].t = "node"}}

\* the nodes ns are the items, one for one: the node itself, or a text
\* node with the string
Shows(d, ns, items) ==
    /\ Len(ns) = Len(items)
    /\ \A i \in 1..Len(items) :
          IF items[i].t = "string"
          THEN d[ns[i]].kind = "text" /\ d[ns[i]].data = items[i].s
          ELSE ns[i] = items[i].n

\* the nodes of ns that are not among the items
Kept(ns, items) == SelectSeq(ns, LAMBDA n : n \notin ItemNodes(items))

\* what a step of a childSlots handle on anchor a with the given items
\* does, was and now being what nodes() returned before and returns after
ChildStepAsRuled(op, a, items, was, now) ==
    /\ ~last'.thrown
    /\ op = "clear" => now = <<>>
    /\ op = "replace" => Shows(dom', now, items)
    /\ op = "append" =>
          /\ Len(now) = Len(Kept(was, items)) + Len(items)
          /\ SubSeq(now, 1, Len(Kept(was, items))) = Kept(was, items)
          /\ Shows(dom', SubSeq(now, Len(Kept(was, items)) + 1, Len(now)), items)
    /\ op = "prepend" =>
          /\ Len(now) = Len(Kept(was, items)) + Len(items)
          /\ SubSeq(now, Len(items) + 1, Len(now)) = Kept(was, items)
          /\ Shows(dom', SubSeq(now, 1, Len(items)), items)
    \* the boundaries of every anchor are as they were
    /\ \A b \in NodeSlots : \A x \in {b.startAfter, b.endBefore} \ {NULL} :
          dom'[x] = dom[x]
    \* so is every node that was not in the region and is not an item
    /\ \A n \in Used(dom) \ (Range(was) \cup ItemNodes(items)) :
          /\ dom'[n].kind = dom[n].kind
          /\ dom'[n].parent = dom[n].parent
          /\ dom'[n].data = dom[n].data
          /\ SelectSeq(dom'[n].kids, LAMBDA c : c \in Used(dom) /\ c \notin Range(was)
                                                  /\ c \notin ItemNodes(items))
                = SelectSeq(dom[n].kids, LAMBDA c : c \notin Range(was)
                                                     /\ c \notin ItemNodes(items))
    \* nodes() is the region between the boundaries
    /\ Valid(dom', a) => now = Region(dom', a)

\* C24: every step of a childSlots handle, whatever calls of the handles
\* and of slots[i].update came before it, does not throw and does what its
\* name says: clear leaves nodes() empty, append puts the items at the end
\* of what nodes() held and prepend at its start, replace makes nodes()
\* the items; the boundary nodes of all anchors and the nodes outside the
\* region stay as they were and where they were.
C24_ChildSlotHandles ==
    [][last'.op \in ChildOps
          => \A a \in {instances[last'.source].nodeSlots[last'.slot]} :
             \A was \in {collectChildNodes(dom, a.startAfter, a.endBefore)} :
             \A now \in {collectChildNodes(dom', a.startAfter, a.endBefore)} :
                ChildStepAsRuled(last'.op, a, last'.args, was, now)]_vars

\* ---- C25
\* the text nodes under root whose data has the marker in it
MarkerTexts(d, root) ==
    {n \in SubtreeOf(d, root) : d[n].kind = "text" /\ InSeq(d[n].data, replacement)}

\* C25: when html.instance has returned, for whatever literal that
\* compiles and whatever arguments (none of which has the marker in it), no
\* text node of the returned fragment has the marker in its data.
C25_NoMarkerLeft ==
    (last.op = "instance" /\ ~last.thrown) => MarkerTexts(dom, last.result) = {}

\* ---- C26
\* the update of anchor a with arg can be made: a new text node can be had
\* when one is needed
CanUpdate(d, a, arg) ==
    arg.t = "string" =>
       (HasRoom(d) \/ FindText(d, collectChildNodes(d, a.startAfter, a.endBefore)) # NULL)

\* anchor b is in d2 as it is in d1: the same nodes in its region, its
\* boundary nodes unchanged
SameAnchor(d1, d2, b) ==
    /\ collectChildNodes(d2, b.startAfter, b.endBefore)
          = collectChildNodes(d1, b.startAfter, b.endBefore)
    /\ \A x \in {b.startAfter, b.endBefore} \ {NULL} : d2[x] = d1[x]

\* C26: in every reachable state, for two different node anchors a and b
\* of the instance and every value that is not a node of b's region,
\* updating a leaves b's region and boundary nodes as they were, and a
\* string update of b made after it leaves b's region one text node with
\* the string.
C26_SlotsIndependent ==
    \A a \in NodeSlots : \A b \in NodeSlots \ {a} : \A arg \in ArgValues :
       (/\ CanUpdate(dom, a, arg)
        /\ arg.t = "node" =>
              ~InSeq(collectChildNodes(dom, b.startAfter, b.endBefore), arg.n))
       => \A r \in {updateNodeSlot(dom, a, arg)} :
             /\ SameAnchor(dom, r.d, b)
             /\ CanUpdate(r.d, b, StringArg(<<"x">>)) =>
                   \A r2 \in {updateNodeSlot(r.d, b, StringArg(<<"x">>))} :
                   \A now \in {collectChildNodes(r2.d, b.startAfter, b.endBefore)} :
                      /\ Len(now) = 1
                      /\ r2.d[now[1]].kind = "text"
                      /\ r2.d[now[1]].data = <<"x">>
====
